---------------------------- MODULE Spec2Model ----------------------------
(***************************************************************************)
(* Model of the two survey scripts of araujomelogno/zonaR:                 *)
(*   src/analysis.py          load, clean column names, demographics, NPS  *)
(*   src/data_exploration.py  walk a directory and report each data file   *)
(*                                                                         *)
(* Strings are sequences of Unicode code points.  A cell of a data frame   *)
(* is a record: a number (an exact rational num/den), a text (which may or *)
(* may not parse as a number) or a missing value.  Arithmetic that the     *)
(* scripts do in binary floating point is done here on exact rationals.    *)
(* Column names are strings; the headers of the workbooks main loads in    *)
(* Spec stay pairwise distinct after cleaning (what pandas does with two   *)
(* columns of one name is not modelled).                                   *)
(***************************************************************************)
EXTENDS Integers, Sequences, FiniteSets, TLC

VARIABLES
    pc,         \* the position of the running script
    disk,       \* analysis.py: what is at <data_dir>/baseZona2024.xlsx
    df,         \* analysis.py: main's df (the loaded data frame, or None)
    var_idx,    \* analyze_demographics: index into demographic_vars
    nps,        \* calculate_nps: its local variables
    out,        \* standard output: the lines printed so far
    calls,      \* explore_data: the reader calls made so far
    dir,        \* data_exploration.py: what is at data_path
    file_list,  \* explore_data: sorted(os.listdir(data_path))
    file_idx    \* explore_data: how many entries of file_list the loop has taken

vars == <<pc, disk, df, var_idx, nps, out, calls, dir, file_list, file_idx>>

-----------------------------------------------------------------------------
(* Bounds of the model *)

MaxRows == 4
MaxDemoRows == 4
MaxCols == 2
MaxNameLen == 2
MaxEntries == 4

-----------------------------------------------------------------------------
(* Generic helpers *)

SeqsUpTo(S, n) == UNION {[1..k -> S] : k \in 0..n}

Range(s) == {s[i] : i \in 1..Len(s)}

Abs(x) == IF x < 0 THEN -x ELSE x

RECURSIVE Flatten(_)
Flatten(ss) == IF ss = <<>> THEN <<>> ELSE Head(ss) \o Flatten(Tail(ss))

\* A printed line: what it is, and the integers (code points, counts,
\* hundredths) it carries.
Line(tag, arg) == [tag |-> tag, arg |-> arg]

Printed(tag) == \E i \in 1..Len(out) : out[i].tag = tag

-----------------------------------------------------------------------------
(* Cells and series *)

Num(n, d) == [kind |-> "num", parses |-> TRUE, num |-> n, den |-> d]
Text(n, d) == [kind |-> "str", parses |-> TRUE, num |-> n, den |-> d]
\* A text that is no number; id tells one such text from another.
Str(id) == [kind |-> "str", parses |-> FALSE, num |-> id, den |-> 1]
Junk == Str(0)
NaN == [kind |-> "nan", parses |-> FALSE, num |-> 0, den |-> 1]

\* Variant: a value that fails coercion is read as 0 instead of NaN.
to_numeric_zero(c) == IF c.kind = "num" \/ (c.kind = "str" /\ c.parses)
                     THEN Num(c.num, c.den)
                     ELSE Num(0, 1)
\* pd.to_numeric(errors='coerce') on one cell: a number stays, a text that
\* parses becomes its number, anything else becomes NaN.
to_numeric(c) == IF c.kind = "num" \/ (c.kind = "str" /\ c.parses)
                 THEN Num(c.num, c.den)
                 ELSE NaN

notna(c) == c.kind # "nan"

dropna(s) == SelectSeq(s, notna)

\* Comparisons of a numeric cell with an integer, as pandas does elementwise.
ge(c, k) == c.num >= k * c.den
le(c, k) == c.num <= k * c.den
between(c, lo, hi) == ge(c, lo) /\ le(c, hi)

IsPromoter(c) == ge(c, 9)
IsPassive(c) == between(c, 7, 8)
\* Variant: the detractor band reaching up to 7.
IsDetractor_le7(c) == le(c, 7)
IsDetractor(c) == le(c, 6)

\* (mask).sum(): how many cells of the series pass the test.
sum_promoters(s) == Len(SelectSeq(s, IsPromoter))
sum_passives(s) == Len(SelectSeq(s, IsPassive))
sum_detractors(s) == Len(SelectSeq(s, IsDetractor))


\* Nearest integer to a/b (b > 0), ties to the even one: what round(2) and
\* the :.2f format do to a value that is exactly half way.
RoundHalfEven(a, b) ==
    LET q == a \div b
        r == a % b
    IN  IF 2 * r < b THEN q
        ELSE IF 2 * r > b THEN q + 1
        ELSE q + (q % 2)

-----------------------------------------------------------------------------
(* Strings *)

\* The code points the model's strings are made of.
UpperA == 65
UpperZ == 90
AsciiLimit == 128

\* str.lower() on one code point.
lower_cp(c) ==
    CASE c >= UpperA /\ c <= UpperZ -> c + 32
      [] c = 201 -> 233            \* 'E' acute -> 'e' acute
      [] c = 209 -> 241            \* 'N' tilde -> 'n' tilde
      [] c = 211 -> 243            \* 'O' acute -> 'o' acute
      [] OTHER -> c                \* already lower case, or caseless

\* unicodedata.normalize('NFKD', ch) on one code point.
nfkd_cp(c) ==
    CASE c = 201 -> <<69, 769>>    \* 'E' + combining acute
      [] c = 209 -> <<78, 771>>    \* 'N' + combining tilde
      [] c = 211 -> <<79, 769>>    \* 'O' + combining acute
      [] c = 233 -> <<101, 769>>   \* 'e' + combining acute
      [] c = 241 -> <<110, 771>>   \* 'n' + combining tilde
      [] c = 243 -> <<111, 769>>   \* 'o' + combining acute
      [] c = 8482 -> <<84, 77>>    \* TRADE MARK SIGN -> 'T' 'M'
      [] c = 8451 -> <<176, 67>>   \* DEGREE CELSIUS -> degree sign 'C'
      [] OTHER -> <<c>>            \* no decomposition

str_lower(s) == [i \in 1..Len(s) |-> lower_cp(s[i])]

str_normalize(s) == Flatten([i \in 1..Len(s) |-> nfkd_cp(s[i])])

\* str.encode('ascii', errors='ignore'): the bytes of the ASCII characters.
IsAscii(c) == c < AsciiLimit
str_encode(s) == SelectSeq(s, IsAscii)

\* bytes.decode('utf-8') of bytes below 128: one code point per byte.
str_decode(b) == [i \in 1..Len(b) |-> b[i]]

clean_name(s) == str_decode(str_encode(str_normalize(str_lower(s))))

IsLower(s) == \A i \in 1..Len(s) : ~(s[i] >= UpperA /\ s[i] <= UpperZ)
IsAsciiOnly(s) == \A i \in 1..Len(s) : IsAscii(s[i])

\* The column names the analysis looks for.
sexo == <<115, 101, 120, 111>>
edad_tramo == <<101, 100, 97, 100, 95, 116, 114, 97, 109, 111>>
depto == <<100, 101, 112, 116, 111>>
nps_name == <<110, 112, 115>>

demographic_vars == <<sexo, edad_tramo, depto>>

-----------------------------------------------------------------------------
(* Data frames *)

Frame(columns, data) == [isnone |-> FALSE, columns |-> columns, data |-> data]
None == [isnone |-> TRUE, columns |-> <<>>, data |-> <<>>]

HasColumn(f, name) == \E i \in 1..Len(f.columns) : f.columns[i] = name

\* df[name]: the series under the column called name.
Column(f, name) == f.data[CHOOSE i \in 1..Len(f.columns) : f.columns[i] = name]

DistinctNames(cols) ==
    \A i, j \in 1..Len(cols) : cols[i] = cols[j] => i = j


\* Series.value_counts(normalize=True): one row per distinct non-missing
\* value with its share count/n of the non-missing cells, by descending
\* count.  The order among equal counts is not fixed: every such order is a
\* possible result.
Occurrences(s, v) == Cardinality({i \in 1..Len(s) : s[i] = v})

\* The orders of the values vals of series s by descending count.
Orders(s, vals) ==
    {o \in [1..Cardinality(vals) -> vals] :
        /\ \A v \in vals : \E i \in DOMAIN o : o[i] = v
        /\ \A i, j \in DOMAIN o :
              i < j => Occurrences(s, o[i]) >= Occurrences(s, o[j])}

\* Variant: shares of all rows, the missing ones included.
value_counts_all_rows(s) ==
    LET valid == dropna(s)
    IN  {[i \in DOMAIN o |->
            [value |-> o[i], num |-> Occurrences(valid, o[i]), den |-> Len(s)]] :
         o \in Orders(valid, Range(valid))}
value_counts(s) ==
    LET valid == dropna(s)
    IN  {[i \in DOMAIN o |->
            [value |-> o[i], num |-> Occurrences(valid, o[i]), den |-> Len(valid)]] :
         o \in Orders(valid, Range(valid))}

\* .mul(100).round(2) on one share: the percentage, in hundredths.
mul100_round2(share) == RoundHalfEven(100 * (100 * share.num), share.den)

\* What analyze_demographics prints for one table.
Percentages(t) ==
    [i \in DOMAIN t |-> [value |-> t[i].value, pct |-> mul100_round2(t[i])]]


-----------------------------------------------------------------------------
(* analysis.py *)

NoNps == [counted |-> FALSE, scored |-> FALSE,
          promoters |-> 0, passives |-> 0, detractors |-> 0,
          total_respondents |-> 0,
          promoter_percentage |-> [num |-> 0, den |-> 1],
          detractor_percentage |-> [num |-> 0, den |-> 1],
          nps_score |-> [num |-> 0, den |-> 1]]

\* Exact rationals for the float arithmetic of lines 123-126.
Rat(n, d) == [num |-> n, den |-> d]
RatMul(a, k) == Rat(a.num * k, a.den)
RatSub(a, b) == Rat(a.num * b.den - b.num * a.den, a.den * b.den)
\* The value formatted with :.2f, in hundredths (0 stands for a nan).
Format2f(a) == IF a.den = 0 THEN 0 ELSE RoundHalfEven(100 * a.num, a.den)

\* load_main_dataset: pd.read_excel succeeds and the frame is returned.
LoadSuccess ==
    /\ pc = "load_main_dataset"
    /\ disk.state = "ok"
    /\ df' = disk.frame
    /\ out' = out \o <<Line("--- Loading dataset", <<>>),
                       Line("Dataset loaded successfully.", <<>>)>>
    /\ pc' = "main_if"
    /\ UNCHANGED <<disk, var_idx, nps, calls, dir, file_list, file_idx>>

\* load_main_dataset: FileNotFoundError is caught, None is returned.
LoadFileNotFound ==
    /\ pc = "load_main_dataset"
    /\ disk.state = "missing"
    /\ df' = None
    /\ out' = out \o <<Line("--- Loading dataset", <<>>),
                       Line("[ERROR] File not found", <<>>)>>
    /\ pc' = "main_if"
    /\ UNCHANGED <<disk, var_idx, nps, calls, dir, file_list, file_idx>>

\* load_main_dataset: any other Exception is caught, None is returned.
LoadOtherError ==
    /\ pc = "load_main_dataset"
    /\ disk.state = "corrupt"
    /\ df' = None
    /\ out' = out \o <<Line("--- Loading dataset", <<>>),
                       Line("[ERROR] An error occurred while loading the file", <<>>)>>
    /\ pc' = "main_if"
    /\ UNCHANGED <<disk, var_idx, nps, calls, dir, file_list, file_idx>>

\* Variant: no guard.
MainGuard_always(f) == TRUE
\* main, line 151: if df is not None.
MainGuard(f) == ~f.isnone

MainIf ==
    /\ pc = "main_if"
    /\ pc' = IF MainGuard(df) THEN "clean_column_names" ELSE "exit"
    /\ UNCHANGED <<disk, df, var_idx, nps, out, calls, dir, file_list, file_idx>>

\* clean_column_names: every column name is cleaned, the data stay.
clean_column_names ==
    /\ pc = "clean_column_names"
    /\ df' = [df EXCEPT !.columns =
                 [i \in 1..Len(df.columns) |-> clean_name(df.columns[i])]]
    /\ out' = out \o <<Line("--- Cleaning column names ---", <<>>),
                       Line("Column names cleaned successfully.", <<>>),
                       Line("Example of changes", <<>>)>>
    /\ pc' = "analyze_demographics"
    /\ UNCHANGED <<disk, var_idx, nps, calls, dir, file_list, file_idx>>

\* analyze_demographics, lines 77-79: the banner, then the loop starts.
analyze_demographics ==
    /\ pc = "analyze_demographics"
    /\ out' = Append(out, Line("--- Performing Demographic Analysis ---", <<>>))
    /\ var_idx' = 1
    /\ pc' = "demographics_loop"
    /\ UNCHANGED <<disk, df, nps, calls, dir, file_list, file_idx>>

AfterVar(i) == IF i < Len(demographic_vars)
               THEN "demographics_loop" ELSE "calculate_nps"

\* One pass of the loop for a column that is there: its table is printed.
DemographicsTabulate ==
    /\ pc = "demographics_loop"
    /\ HasColumn(df, demographic_vars[var_idx])
    /\ \E t \in value_counts(Column(df, demographic_vars[var_idx])) :
          out' = out \o <<Line("[INFO] Analysis of", demographic_vars[var_idx]),
                          Line("table", Percentages(t))>>
    /\ var_idx' = var_idx + 1
    /\ pc' = AfterVar(var_idx)
    /\ UNCHANGED <<disk, df, nps, calls, dir, file_list, file_idx>>

\* Variant: the function returns after the warning.
AfterWarn_return(i) == "calculate_nps"
\* Lines 85-86: after the warning the loop goes on with the next name.
AfterWarn(i) == AfterVar(i)

\* One pass of the loop for a column that is not there: a warning.
DemographicsWarn ==
    /\ pc = "demographics_loop"
    /\ ~HasColumn(df, demographic_vars[var_idx])
    /\ out' = Append(out, Line("[WARNING] Column not found", demographic_vars[var_idx]))
    /\ var_idx' = var_idx + 1
    /\ pc' = AfterWarn(var_idx)
    /\ UNCHANGED <<disk, df, nps, calls, dir, file_list, file_idx>>

\* calculate_nps without an 'nps' column: a warning, and it returns.
NpsColumnMissing ==
    /\ pc = "calculate_nps"
    /\ ~HasColumn(df, nps_name)
    /\ out' = out \o <<Line("--- Calculating Net Promoter Score (NPS) ---", <<>>),
                       Line("[WARNING] 'nps' column not found", <<>>)>>
    /\ nps' = NoNps
    /\ pc' = "main_complete"
    /\ UNCHANGED <<disk, df, var_idx, calls, dir, file_list, file_idx>>

\* Lines 108-117: the scores that are numbers, and the three counts.
nps_scores(f) ==
    LET raw == Column(f, nps_name)
    IN  dropna([i \in 1..Len(raw) |-> to_numeric(raw[i])])

Counted(scores) ==
    [NoNps EXCEPT !.counted = TRUE,
                  !.promoters = sum_promoters(scores),
                  !.passives = sum_passives(scores),
                  !.detractors = sum_detractors(scores),
                  !.total_respondents = Len(scores)]

\* Variant: no test for an empty series.
NoRespondents_never(c) == FALSE
\* Line 119: if total_respondents == 0.
NoRespondents(c) == c.total_respondents = 0

\* Lines 123-126.  A division by zero leaves no score behind.
Scored(c) ==
    IF c.total_respondents = 0 THEN [c EXCEPT !.scored = TRUE]
    ELSE LET pp == RatMul(Rat(c.promoters, c.total_respondents), 100)
             dp == RatMul(Rat(c.detractors, c.total_respondents), 100)
         IN  [c EXCEPT !.scored = TRUE,
                       !.promoter_percentage = pp,
                       !.detractor_percentage = dp,
                       !.nps_score = RatSub(pp, dp)]

\* calculate_nps with an 'nps' column that holds no number.
NpsNoData ==
    /\ pc = "calculate_nps"
    /\ HasColumn(df, nps_name)
    /\ LET c == Counted(nps_scores(df))
       IN  /\ NoRespondents(c)
           /\ nps' = c
    /\ out' = out \o <<Line("--- Calculating Net Promoter Score (NPS) ---", <<>>),
                       Line("[INFO] No valid NPS scores found.", <<>>)>>
    /\ pc' = "main_complete"
    /\ UNCHANGED <<disk, df, var_idx, calls, dir, file_list, file_idx>>

\* calculate_nps with at least one number: the report and the score.
NpsScore ==
    /\ pc = "calculate_nps"
    /\ HasColumn(df, nps_name)
    /\ LET c == Counted(nps_scores(df))
           r == Scored(c)
       IN  /\ ~NoRespondents(c)
           /\ nps' = r
           /\ out' = out \o
                <<Line("--- Calculating Net Promoter Score (NPS) ---", <<>>),
                  Line("Total NPS Respondents", <<r.total_respondents>>),
                  Line("Promoters (9-10)",
                       <<r.promoters, Format2f(r.promoter_percentage)>>),
                  Line("Passives (7-8)",
                       <<r.passives,
                         Format2f(RatMul(Rat(r.passives, r.total_respondents), 100))>>),
                  Line("Detractors (0-6)",
                       <<r.detractors, Format2f(r.detractor_percentage)>>),
                  Line("Final NPS Score", <<Format2f(r.nps_score)>>)>>
    /\ pc' = "main_complete"
    /\ UNCHANGED <<disk, df, var_idx, calls, dir, file_list, file_idx>>

\* main, line 155.
MainComplete ==
    /\ pc = "main_complete"
    /\ out' = Append(out, Line("--- Analysis Complete ---", <<>>))
    /\ pc' = "exit"
    /\ UNCHANGED <<disk, df, var_idx, nps, calls, dir, file_list, file_idx>>


-----------------------------------------------------------------------------
(* data_exploration.py *)

\* A directory entry: its name, whether it is a directory, and what reading
\* it does: "ok", "corrupt" (the reader raises) or "unprintable" (the reader
\* returns a frame and reporting it raises).
Entry(name, isdir, content) == [name |-> name, isdir |-> isdir, content |-> content]

\* Python's order on strings: by code point, a proper prefix first.
RECURSIVE StrLess(_, _)
StrLess(a, b) ==
    IF b = <<>> THEN FALSE
    ELSE IF a = <<>> THEN TRUE
    ELSE IF Head(a) # Head(b) THEN Head(a) < Head(b)
    ELSE StrLess(Tail(a), Tail(b))

\* sorted(names)
RECURSIVE sorted(_)
sorted(S) ==
    IF S = {} THEN <<>>
    ELSE LET m == CHOOSE x \in S : \A y \in S \ {x} : StrLess(x, y)
         IN  <<m>> \o sorted(S \ {m})

\* os.listdir(data_path)
listdir(d) == {e.name : e \in d.entries}

EntryNamed(d, name) == CHOOSE e \in d.entries : e.name = name

endswith(s, suffix) ==
    /\ Len(s) >= Len(suffix)
    /\ SubSeq(s, Len(s) - Len(suffix) + 1, Len(s)) = suffix

dot_csv == <<46, 99, 115, 118>>
dot_xlsx == <<46, 120, 108, 115, 120>>
dot_sav == <<46, 115, 97, 118>>

\* Variant: the suffix is matched without lowering the name.
Reader_case_sensitive(filename) ==
    IF endswith(filename, dot_csv) THEN "read_csv"
    ELSE IF endswith(filename, dot_xlsx) THEN "read_excel"
    ELSE IF endswith(filename, dot_sav) THEN "read_sav"
    ELSE "none"
\* Lines 36-44: the reader the file name selects, "none" when unsupported.
Reader(filename) ==
    IF endswith(str_lower(filename), dot_csv) THEN "read_csv"
    ELSE IF endswith(str_lower(filename), dot_xlsx) THEN "read_excel"
    ELSE IF endswith(str_lower(filename), dot_sav) THEN "read_sav"
    ELSE "none"

\* explore_data, lines 16-20: the path is no directory.
ExploreNoDirectory ==
    /\ pc = "explore_data"
    /\ ~dir.exists
    /\ out' = out \o <<Line("--- Starting Data Exploration", <<>>),
                       Line("Error: The directory was not found.", <<>>)>>
    /\ pc' = "exit"
    /\ UNCHANGED <<disk, df, var_idx, nps, calls, dir, file_list, file_idx>>

\* explore_data, lines 16-22: the listing is sorted, the loop starts.
ExploreStart ==
    /\ pc = "explore_data"
    /\ dir.exists
    /\ out' = Append(out, Line("--- Starting Data Exploration", <<>>))
    /\ file_list' = sorted(listdir(dir))
    /\ file_idx' = 0
    /\ pc' = "explore_loop"
    /\ UNCHANGED <<disk, df, var_idx, nps, calls, dir>>

filename == file_list[file_idx + 1]

Banner(name) == Line("Analyzing file", name)

\* Variant: the error is reported and the loop is left.
OnError_abort(name) ==
    [lines |-> <<Line("[ERROR] Could not read or process file", name)>>,
     next |-> "exit"]
\* What the except clause does (lines 53-55): two lines are printed and the
\* loop goes on with the next entry.
OnError(name) ==
    [lines |-> <<Line("[ERROR] Could not read or process file", name),
                 Line("  Reason", <<>>)>>,
     next |-> "explore_loop"]

\* One pass of the loop over a directory: skipped without a word.
SkipDirectory ==
    /\ pc = "explore_loop"
    /\ file_idx < Len(file_list)
    /\ EntryNamed(dir, filename).isdir
    /\ file_idx' = file_idx + 1
    /\ UNCHANGED <<pc, disk, df, var_idx, nps, out, calls, dir, file_list>>

\* One pass over a file with a supported suffix that reads and prints.
ReadAndReport ==
    /\ pc = "explore_loop"
    /\ file_idx < Len(file_list)
    /\ ~EntryNamed(dir, filename).isdir
    /\ Reader(filename) # "none"
    /\ EntryNamed(dir, filename).content = "ok"
    /\ calls' = Append(calls, [reader |-> Reader(filename), name |-> filename])
    /\ out' = out \o <<Banner(filename),
                       Line("[INFO] First 5 rows", filename),
                       Line("[INFO] Column names", filename),
                       Line("[INFO] Data types", filename)>>
    /\ file_idx' = file_idx + 1
    /\ UNCHANGED <<pc, disk, df, var_idx, nps, dir, file_list>>

\* One pass over a file with a supported suffix whose reader raises, or
\* whose frame cannot be printed: the exception is caught and reported.
ReadFails ==
    /\ pc = "explore_loop"
    /\ file_idx < Len(file_list)
    /\ ~EntryNamed(dir, filename).isdir
    /\ Reader(filename) # "none"
    /\ EntryNamed(dir, filename).content # "ok"
    /\ calls' = Append(calls, [reader |-> Reader(filename), name |-> filename])
    /\ out' = out \o <<Banner(filename)>>
                  \o (IF EntryNamed(dir, filename).content = "unprintable"
                      THEN <<Line("[INFO] First 5 rows", filename)>> ELSE <<>>)
                  \o OnError(filename).lines
    /\ file_idx' = file_idx + 1
    /\ pc' = OnError(filename).next
    /\ UNCHANGED <<disk, df, var_idx, nps, dir, file_list>>

\* One pass over a file with no supported suffix: a notice, nothing read.
SkipUnsupported ==
    /\ pc = "explore_loop"
    /\ file_idx < Len(file_list)
    /\ ~EntryNamed(dir, filename).isdir
    /\ Reader(filename) = "none"
    /\ out' = out \o <<Banner(filename),
                       Line("Skipping unsupported file type", filename)>>
    /\ file_idx' = file_idx + 1
    /\ UNCHANGED <<pc, disk, df, var_idx, nps, calls, dir, file_list>>

\* Line 57, after the last entry.
ExploreComplete ==
    /\ pc = "explore_loop"
    /\ file_idx = Len(file_list)
    /\ out' = Append(out, Line("--- Data Exploration Complete ---", <<>>))
    /\ pc' = "exit"
    /\ UNCHANGED <<disk, df, var_idx, nps, calls, dir, file_list, file_idx>>


-----------------------------------------------------------------------------
(* The inputs *)

\* The elements of seq at the positions in S, in order.
Pick(seq, S) ==
    LET InS(i) == i \in S
        ix == SelectSeq([i \in 1..Len(seq) |-> i], InS)
    IN  [k \in 1..Len(ix) |-> seq[ix[k]]]

\* Column headers as a workbook may spell them: 'SEXO', 'Edad_Tramo',
\* 'depto', 'NPS', 'IDBASE'.
RawHeaders ==
    << <<83, 69, 88, 79>>,
       <<69, 100, 97, 100, 95, 84, 114, 97, 109, 111>>,
       <<100, 101, 112, 116, 111>>,
       <<78, 80, 83>>,
       <<73, 68, 66, 65, 83, 69>> >>

\* Rows of such a workbook, one cell per header of RawHeaders.
RowPool ==
    { <<Str(1), Num(1, 1), Str(3), Num(9, 1), Num(101, 1)>>,
      <<Str(2), Num(2, 1), NaN,    Junk,      Num(102, 1)>>,
      <<Str(1), Num(3, 1), Str(4), Text(3, 1), Num(103, 1)>>,
      <<NaN,    Num(1, 1), Str(3), NaN,       Num(104, 1)>> }

\* The frame with the headers at positions S and the given rows.
Workbook(S, rows) ==
    Frame(Pick(RawHeaders, S),
          Pick([j \in 1..Len(RawHeaders) |->
                  [r \in 1..Len(rows) |-> rows[r][j]]], S))

Workbooks ==
    {Workbook(S, rows) : S \in SUBSET (1..Len(RawHeaders)),
                         rows \in SeqsUpTo(RowPool, MaxDemoRows)}

OnDisk(state, frame) == [state |-> state, frame |-> frame]

\* The raw values of an 'nps' column: -1, 0, 6.5, 7, 8, 9, 10, 11, the
\* text '9', a text that is no number, a missing value.
NpsCells ==
    {Num(-1, 1), Num(0, 1), Num(13, 2), Num(7, 1), Num(8, 1), Num(9, 1),
     Num(10, 1), Num(11, 1), Text(9, 1), Junk, NaN}

\* The sample [9, 9, 7, 3, 0].
NpsSample == <<Num(9, 1), Num(9, 1), Num(7, 1), Num(3, 1), Num(0, 1)>>

NpsFrames ==
    {Frame(<<nps_name>>, <<s>>) : s \in SeqsUpTo(NpsCells, MaxRows) \cup {NpsSample}}
    \cup {Frame(<<sexo>>, <<s>>) : s \in SeqsUpTo({Str(1)}, MaxRows)}

\* Characters of a header: 'A', 'a', '_', 'E' acute, the euro sign, the
\* trade mark sign.
HeaderChars == {65, 97, 95, 201, 8364, 8482}

HeaderNames == SeqsUpTo(HeaderChars, MaxNameLen) \ {<<>>}

HeaderFrames ==
    {Frame(cols, [i \in 1..Len(cols) |-> <<>>]) :
        cols \in {c \in SeqsUpTo(HeaderNames, MaxCols) : DistinctNames(c)}}

\* File names: 'A.CSV', 'a.csv', 'b.Xlsx', 'c.sav', 'd.txt', 'ecsv'.
FileNames ==
    { <<65, 46, 67, 83, 86>>,
      <<97, 46, 99, 115, 118>>,
      <<98, 46, 88, 108, 115, 120>>,
      <<99, 46, 115, 97, 118>>,
      <<100, 46, 116, 120, 116>>,
      <<101, 99, 115, 118>> }

EntryKinds ==
    {[isdir |-> TRUE, content |-> "ok"], [isdir |-> FALSE, content |-> "ok"],
     [isdir |-> FALSE, content |-> "corrupt"],
     [isdir |-> FALSE, content |-> "unprintable"]}

Directory(exists, entries) == [exists |-> exists, entries |-> entries]

Directories ==
    {Directory(FALSE, {})} \cup
    {Directory(TRUE, {Entry(n, k[n].isdir, k[n].content) : n \in names}) :
        names \in {N \in SUBSET FileNames : Cardinality(N) <= MaxEntries},
        k \in [FileNames -> EntryKinds]}

-----------------------------------------------------------------------------
(* The specifications *)

Idle ==
    /\ var_idx = 1
    /\ nps = NoNps
    /\ out = <<>>
    /\ calls = <<>>
    /\ file_list = <<>>
    /\ file_idx = 0

\* analysis.py, from the start of main.
Init ==
    /\ pc = "load_main_dataset"
    /\ disk \in {OnDisk("missing", None), OnDisk("corrupt", None)}
                \cup {OnDisk("ok", f) : f \in {w \in Workbooks :
                         DistinctNames([i \in 1..Len(w.columns) |->
                                           clean_name(w.columns[i])])}}
    /\ df = None
    /\ dir = Directory(FALSE, {})
    /\ Idle

Next ==
    \/ LoadSuccess
    \/ LoadFileNotFound
    \/ LoadOtherError
    \/ MainIf
    \/ clean_column_names
    \/ analyze_demographics
    \/ DemographicsTabulate
    \/ DemographicsWarn
    \/ NpsColumnMissing
    \/ NpsNoData
    \/ NpsScore
    \/ MainComplete

Spec == Init /\ [][Next]_vars

\* clean_column_names on the headers of a frame.
InitClean ==
    /\ pc = "clean_column_names"
    /\ disk \in {OnDisk("ok", f) : f \in HeaderFrames}
    /\ df = disk.frame
    /\ dir = Directory(FALSE, {})
    /\ Idle

NextClean == clean_column_names

SpecClean == InitClean /\ [][NextClean]_vars

\* calculate_nps on a frame.
InitNps ==
    /\ pc = "calculate_nps"
    /\ disk \in {OnDisk("ok", f) : f \in NpsFrames}
    /\ df = disk.frame
    /\ dir = Directory(FALSE, {})
    /\ Idle

NextNps ==
    \/ NpsColumnMissing
    \/ NpsNoData
    \/ NpsScore

SpecNps == InitNps /\ [][NextNps]_vars

\* data_exploration.py, from the call of explore_data.
InitExplore ==
    /\ pc = "explore_data"
    /\ disk = OnDisk("missing", None)
    /\ df = None
    /\ dir \in Directories
    /\ Idle

NextExplore ==
    \/ ExploreNoDirectory
    \/ ExploreStart
    \/ SkipDirectory
    \/ ReadAndReport
    \/ ReadFails
    \/ SkipUnsupported
    \/ ExploreComplete

SpecExplore == InitExplore /\ [][NextExplore]_vars


-----------------------------------------------------------------------------
(* calculate_nps: claims C1-C4 *)

\* The raw 'nps' values calculate_nps was given.
NpsInput == Column(disk.frame, nps_name)

NpsRan == pc = "main_complete" /\ HasColumn(disk.frame, nps_name)

\* The cell is a number or a text that reads as one.
Coerces(c) == c.kind = "num" \/ (c.kind = "str" /\ c.parses)

ValidAt(s) == {i \in 1..Len(s) : Coerces(s[i])}
PromoterAt(s) == {i \in ValidAt(s) : s[i].num >= 9 * s[i].den}
PassiveAt(s) == {i \in ValidAt(s) : s[i].num >= 7 * s[i].den /\ s[i].num <= 8 * s[i].den}
DetractorAt(s) == {i \in ValidAt(s) : s[i].num <= 6 * s[i].den}

AllValues(s, V) == Len(s) > 0 /\ \A i \in 1..Len(s) : s[i] \in V

ScoreIs(k) == nps.nps_score.num = k * nps.nps_score.den

\* C1: whenever at least one raw value coerces to a number, values outside
\* [0,10] included, the score is 100*(P/T) - 100*(D/T) with P the count of
\* values >= 9, D the count of values <= 6 and T the count of valid values,
\* and lies in [-100, 100]; all 10s give 100, all 0s give -100, all 7s or
\* 8s give 0, and [9,9,7,3,0] gives P=2, passives=1, D=2, T=5, score 0.
C1_NpsFormula ==
    (NpsRan /\ ValidAt(NpsInput) # {}) =>
        LET P == Cardinality(PromoterAt(NpsInput))
            D == Cardinality(DetractorAt(NpsInput))
            T == Cardinality(ValidAt(NpsInput))
        IN  /\ nps.scored
            /\ nps.nps_score.den > 0
            /\ nps.nps_score.num * T = (100 * P - 100 * D) * nps.nps_score.den
            /\ nps.nps_score.num <= 100 * nps.nps_score.den
            /\ nps.nps_score.num >= (-100) * nps.nps_score.den
            /\ AllValues(NpsInput, {Num(10, 1)}) => ScoreIs(100)
            /\ AllValues(NpsInput, {Num(0, 1)}) => ScoreIs(-100)
            /\ AllValues(NpsInput, {Num(7, 1), Num(8, 1)}) => ScoreIs(0)
            /\ NpsInput = NpsSample =>
                  /\ nps.promoters = 2
                  /\ nps.passives = 1
                  /\ nps.detractors = 2
                  /\ nps.total_respondents = 5
                  /\ ScoreIs(0)

C1_Witness ==
    /\ NpsRan
    /\ NpsInput = NpsSample
    /\ nps.scored
    /\ Printed("Final NPS Score")

InZeroTen(c) == c.num >= 0 /\ c.num <= 10 * c.den

\* C2: when every valid value lies in [0,10], each valid value is counted in
\* exactly one of the three bands and the three counts sum to T.
C2_BandsExhaustive ==
    (/\ NpsRan
     /\ nps.counted
     /\ \A i \in ValidAt(NpsInput) : InZeroTen(NpsInput[i])) =>
        nps.promoters + nps.passives + nps.detractors = nps.total_respondents

\* C3: with no valid numeric entry calculate_nps reports "no data" and
\* stops: no respondent count, no band line, no score, no division.
C3_NoData ==
    (NpsRan /\ ValidAt(NpsInput) = {}) =>
        /\ Printed("[INFO] No valid NPS scores found.")
        /\ ~nps.scored
        /\ ~Printed("Total NPS Respondents")
        /\ ~Printed("Promoters (9-10)")
        /\ ~Printed("Passives (7-8)")
        /\ ~Printed("Detractors (0-6)")
        /\ ~Printed("Final NPS Score")

C3_Witness ==
    /\ NpsRan
    /\ Len(NpsInput) > 1
    /\ Junk \in Range(NpsInput)
    /\ NaN \in Range(NpsInput)
    /\ ValidAt(NpsInput) = {}
    /\ Printed("[INFO] No valid NPS scores found.")

\* What calculate_nps leaves in its locals on a series of raw values.
NpsResult(raw) ==
    LET c == Counted(dropna([i \in 1..Len(raw) |-> to_numeric(raw[i])]))
    IN  IF NoRespondents(c) THEN c ELSE Scored(c)

\* C4: values that are missing or fail coercion are in none of the counts:
\* T, promoters, passives and detractors count valid values only, and the
\* result is the result on the series with those values removed.
C4_InvalidExcluded ==
    NpsRan =>
        /\ nps.counted
        /\ nps.total_respondents = Cardinality(ValidAt(NpsInput))
        /\ nps.promoters = Cardinality(PromoterAt(NpsInput))
        /\ nps.passives = Cardinality(PassiveAt(NpsInput))
        /\ nps.detractors = Cardinality(DetractorAt(NpsInput))
        /\ nps = NpsResult(SelectSeq(NpsInput, Coerces))

C4_Witness ==
    /\ NpsRan
    /\ Junk \in Range(NpsInput)
    /\ NaN \in Range(NpsInput)
    /\ Num(9, 1) \in Range(NpsInput)
    /\ Num(0, 1) \in Range(NpsInput)
    /\ nps.scored
    /\ nps.total_respondents = 2


-----------------------------------------------------------------------------
(* explore_data: claims C5, C6 *)

\* The lines of out with the given tag, in order.
LinesTagged(tag) ==
    LET Is(l) == l.tag = tag
    IN  SelectSeq(out, Is)

PrintedFor(tag, name) ==
    \E i \in 1..Len(out) : out[i].tag = tag /\ out[i].arg = name

\* The non-directory entries of the directory.
Files == {e \in dir.entries : ~e.isdir}

\* The reader each file name of FileNames calls for, by its suffix whatever
\* the case of its letters.
ExpectedReader(name) ==
    CASE name = <<65, 46, 67, 83, 86>> -> "read_csv"          \* 'A.CSV'
      [] name = <<97, 46, 99, 115, 118>> -> "read_csv"        \* 'a.csv'
      [] name = <<98, 46, 88, 108, 115, 120>> -> "read_excel" \* 'b.Xlsx'
      [] name = <<99, 46, 115, 97, 118>> -> "read_sav"        \* 'c.sav'
      [] OTHER -> "none"                                      \* 'd.txt', 'ecsv'

Exploring == dir.exists /\ pc \in {"explore_loop", "exit"}

\* The names the loop has taken so far.
Taken == {file_list[i] : i \in 1..file_idx}

\* C5: on an existing directory every non-directory entry is visited exactly
\* once, in lexicographic order of name; a file whose read or report fails
\* is reported with its name and a reason and the loop goes on, so every
\* entry is visited whatever failed before it and the run ends with "Data
\* Exploration Complete".
C5_VisitsAllInOrder ==
    Exploring =>
        LET b == LinesTagged("Analyzing file")
        IN  /\ \A i, j \in 1..Len(b) : i < j => StrLess(b[i].arg, b[j].arg)
            /\ {b[i].arg : i \in 1..Len(b)} = {e.name : e \in Files} \cap Taken
            /\ \A e \in Files :
                  (e.name \in Taken /\ ExpectedReader(e.name) # "none"
                                    /\ e.content # "ok") =>
                      /\ PrintedFor("[ERROR] Could not read or process file", e.name)
                      /\ Printed("  Reason")
            /\ pc = "exit" =>
                  /\ Taken = {e.name : e \in dir.entries}
                  /\ out[Len(out)].tag = "--- Data Exploration Complete ---"
            /\ pc # "exit" => ENABLED NextExplore

C5_Witness ==
    /\ Exploring
    /\ pc = "exit"
    /\ Len(file_list) >= 3
    /\ EntryNamed(dir, file_list[1]).content = "corrupt"
    /\ ~EntryNamed(dir, file_list[1]).isdir
    /\ PrintedFor("[ERROR] Could not read or process file", file_list[1])
    /\ EntryNamed(dir, file_list[2]).content = "ok"
    /\ PrintedFor("[INFO] Data types", file_list[2])
    /\ EntryNamed(dir, file_list[3]).content = "unprintable"
    /\ PrintedFor("[ERROR] Could not read or process file", file_list[3])
    /\ Printed("--- Data Exploration Complete ---")

CallsFor(name) == {i \in 1..Len(calls) : calls[i].name = name}

\* C6: the reader is chosen by the suffix of the file name whatever its
\* case; a file with none of the three suffixes gets a notice and is neither
\* read, nor reported as an error, nor given a preview, column or type
\* report.
C6_ReaderBySuffix ==
    Exploring =>
        /\ \A i \in 1..Len(calls) :
              /\ calls[i].reader = ExpectedReader(calls[i].name)
              /\ calls[i].reader # "none"
        /\ \A e \in Files :
              e.name \in Taken =>
                  IF ExpectedReader(e.name) = "none"
                  THEN /\ PrintedFor("Skipping unsupported file type", e.name)
                       /\ CallsFor(e.name) = {}
                       /\ ~PrintedFor("[ERROR] Could not read or process file", e.name)
                       /\ ~PrintedFor("[INFO] First 5 rows", e.name)
                       /\ ~PrintedFor("[INFO] Column names", e.name)
                       /\ ~PrintedFor("[INFO] Data types", e.name)
                  ELSE /\ Cardinality(CallsFor(e.name)) = 1
                       /\ ~PrintedFor("Skipping unsupported file type", e.name)

C6_Witness ==
    /\ pc = "exit"
    /\ \E i, j \in 1..Len(calls) :
          /\ calls[i] = [reader |-> "read_csv", name |-> <<65, 46, 67, 83, 86>>]
          /\ calls[j] = [reader |-> "read_csv", name |-> <<97, 46, 99, 115, 118>>]
    /\ PrintedFor("Skipping unsupported file type", <<100, 46, 116, 120, 116>>)
    /\ PrintedFor("Skipping unsupported file type", <<101, 99, 115, 118>>)


-----------------------------------------------------------------------------
(* clean_column_names: claim C7 *)

\* C7: clean_column_names returns as many names as it was given, each of
\* them lower case (no upper-case letter) and ASCII only.
C7_CleanNames ==
    pc = "analyze_demographics" =>
        /\ Len(df.columns) = Len(disk.frame.columns)
        /\ \A i \in 1..Len(df.columns) :
              /\ IsLower(df.columns[i])
              /\ IsAsciiOnly(df.columns[i])

-----------------------------------------------------------------------------
(* main: claims C8, C9 *)

\* The position in out of the only line with the tag, 0 when there is not
\* exactly one.
LineNo(tag) ==
    LET at == {i \in 1..Len(out) : out[i].tag = tag}
    IN  IF Cardinality(at) = 1 THEN CHOOSE i \in at : TRUE ELSE 0

StepBanners ==
    {"--- Cleaning column names ---",
     "--- Performing Demographic Analysis ---",
     "--- Calculating Net Promoter Score (NPS) ---",
     "--- Analysis Complete ---"}

\* C8: when the primary dataset cannot be loaded load_main_dataset returns
\* None and main runs no step and does not report "Analysis Complete"; when
\* it loads, clean_column_names, analyze_demographics and calculate_nps run
\* in that order.
C8_LoadFailureHalts ==
    /\ disk.state # "ok" =>
          /\ pc \in {"load_main_dataset", "main_if", "exit"}
          /\ pc # "load_main_dataset" => df = None
          /\ \A t \in StepBanners : ~Printed(t)
    /\ (disk.state = "ok" /\ pc = "exit") =>
          /\ 0 < LineNo("--- Cleaning column names ---")
          /\ LineNo("--- Cleaning column names ---")
                < LineNo("--- Performing Demographic Analysis ---")
          /\ LineNo("--- Performing Demographic Analysis ---")
                < LineNo("--- Calculating Net Promoter Score (NPS) ---")

C8_Witness ==
    /\ pc = "exit"
    /\ disk.state = "missing"
    /\ df = None
    /\ Printed("[ERROR] File not found")

\* How many lines of out carry the tag and the name.
TimesFor(tag, name) ==
    Cardinality({i \in 1..Len(out) : out[i].tag = tag /\ out[i].arg = name})

\* C9: a missing expected column gives a warning and skips only its own
\* step: each of 'sexo', 'edad_tramo', 'depto' is tabulated if present and
\* warned about if absent, calculate_nps runs afterwards, and without an
\* 'nps' column it warns, leaves no score, and the run still completes.
C9_MissingColumnWarns ==
    (disk.state = "ok" /\ pc = "exit") =>
        /\ \A k \in 1..Len(demographic_vars) :
              LET var == demographic_vars[k]
              IN  IF HasColumn(df, var)
                  THEN /\ TimesFor("[INFO] Analysis of", var) = 1
                       /\ TimesFor("[WARNING] Column not found", var) = 0
                  ELSE /\ TimesFor("[INFO] Analysis of", var) = 0
                       /\ TimesFor("[WARNING] Column not found", var) = 1
        /\ Printed("--- Calculating Net Promoter Score (NPS) ---")
        /\ ~HasColumn(df, nps_name) =>
              /\ Printed("[WARNING] 'nps' column not found")
              /\ ~nps.scored
              /\ ~Printed("Final NPS Score")
        /\ out[Len(out)].tag = "--- Analysis Complete ---"

C9_Witness ==
    /\ pc = "exit"
    /\ disk.state = "ok"
    /\ ~HasColumn(df, sexo)
    /\ HasColumn(df, edad_tramo)
    /\ ~HasColumn(df, depto)
    /\ ~HasColumn(df, nps_name)
    /\ Len(Column(df, edad_tramo)) > 0
    /\ TimesFor("[WARNING] Column not found", sexo) = 1
    /\ TimesFor("[INFO] Analysis of", edad_tramo) = 1
    /\ Printed("[WARNING] 'nps' column not found")
    /\ Printed("--- Analysis Complete ---")

-----------------------------------------------------------------------------
(* analyze_demographics: claim C10 *)

\* The sum of the pct fields of a table.
RECURSIVE SumPct(_)
SumPct(t) == IF t = <<>> THEN 0 ELSE Head(t).pct + SumPct(Tail(t))

\* The table at line i of out reports, for the field named on the line
\* before it, every distinct observed value once, with its count as a
\* percentage of the non-missing rows to the nearest hundredth.
TableReportsField(i) ==
    LET t == out[i].arg
        col == Column(df, out[i - 1].arg)
        seen == {r \in 1..Len(col) : col[r].kind # "nan"}
    IN  /\ {t[k].value : k \in 1..Len(t)} = {col[r] : r \in seen}
        /\ \A k, l \in 1..Len(t) : t[k].value = t[l].value => k = l
        /\ \A k \in 1..Len(t) :
              LET count == Cardinality({r \in seen : col[r] = t[k].value})
              IN  2 * Abs(t[k].pct * Cardinality(seen) - 100 * 100 * count)
                     <= Cardinality(seen)

\* The percentages (in hundredths) sum to 100 within 0.005 per category.
TableSumsTo100(i) ==
    LET t == out[i].arg
    IN  2 * Abs(SumPct(t) - 100 * 100) <= Len(t)

Tables == {i \in 1..Len(out) : out[i].tag = "table"}

\* The field of the table at line i has at least one non-missing row.
FieldObserved(i) ==
    \E r \in 1..Len(Column(df, out[i - 1].arg)) :
        Column(df, out[i - 1].arg)[r].kind # "nan"

\* C10 as stated: for each expected field present, every distinct observed
\* value is reported with its percentage of the non-missing rows rounded to
\* two decimals, and the percentages sum to 100 within 0.005 per category.
C10_Original ==
    \A i \in Tables : TableReportsField(i) /\ TableSumsTo100(i)

\* C10 as amended: the same, the sum being 100 only for a field that has at
\* least one non-missing row (the table of a field with none is empty).
C10_PercentagesSum ==
    \A i \in Tables :
        /\ TableReportsField(i)
        /\ FieldObserved(i) => TableSumsTo100(i)
        /\ ~FieldObserved(i) => out[i].arg = <<>>

C10_Witness ==
    \E i \in Tables :
        /\ out[i - 1].arg = edad_tramo
        /\ Len(out[i].arg) = 3
        /\ SumPct(out[i].arg) = 9999
        /\ \E j \in Tables :
              /\ out[j - 1].arg = sexo
              /\ Len(out[j].arg) = 2
              /\ NaN \in Range(Column(df, sexo))

=============================================================================
